---- MODULE Spec2Model ----
(***************************************************************************)
(* Model of OfficialBlancosyDataProcessor (official_data_processor.py):    *)
(* the consolidation of the official 2024 figures and of the sheets of the *)
(* 2025 workbook into one ledger, and the summary / filter / KPI functions *)
(* over that ledger.                                                       *)
(*                                                                         *)
(* Money is counted in twentieths of a shilling (0.05 KES), the coarsest   *)
(* unit in which every official figure is a whole number; sums are exact   *)
(* decimal sums.  A spreadsheet cell is <<>> when it is empty (NaN) and    *)
(* <<v>> when it holds the number v.  A date is a record [y, m, d]; NaT is *)
(* the date pandas yields for a cell it cannot parse.                      *)
(***************************************************************************)
EXTENDS Integers, Sequences, FiniteSets, TLC

\* ------------------------------------------------------------------ bounds
\* Workbooks with all seven sheets, six of them without rows: the seventh holds
\* at most MaxRows rows, and it may lack one column or be absent.
MaxRows == 1
\* Workbooks with an arbitrary subset of the sheets: the rows plus the absent
\* columns of the sheets that exist number at most MaxSparse.
MaxSparse == 0
\* An exception in the block of the official figures is raised after at most
\* MaxFaultAppends frames have been appended.
MaxFaultAppends == 1
\* The queries are run on workbooks with at most MaxQueryRows rows.
MaxQueryRows == 1

\* --------------------------------------------------------------- constants
KES(whole, cents) == whole * 20 + cents \div 5

NaN == <<>>
Num(v) == <<v>>
IsNaN(c) == c = <<>>
NumOf(c) == c[1]

NaT == [y |-> 0, m |-> 0, d |-> 0]
YearEnd2024 == [y |-> 2024, m |-> 12, d |-> 31]
ADate == [y |-> 2025, m |-> 3, d |-> 14]

SourceA == "Official 2024"
SheetOrder == <<"Sales", "Labour", "rent", "Purchase of stock", "Utilities", "Saving", "Expense">>
Sheets == {SheetOrder[i] : i \in 1..Len(SheetOrder)}
Sources == {SourceA} \cup Sheets

Columns == {"Tran Date", "Withdrawals", "Deposits", "Transaction Narrative"}
NoColumn == "none"

Categories == {"Sales", "Stock Purchase", "Labour", "Rent", "Transport", "Transaction Costs",
               "Utilities", "Savings", "Savings Withdrawal", "Other Expenses"}

\* ------------------------------------------------------------ the workbook
\* A row holds the cells the loaders read: the date cell (a date, or NotADate
\* for a cell that is empty or holds text), the Withdrawals cell (third
\* column) and the Deposits cell (fourth column).  Amount cells are numeric
\* or empty.
NotADate == [y |-> -1, m |-> 0, d |-> 0]
DateCells == {ADate, NotADate}
AmountCells == {NaN, Num(-1), Num(0), Num(2)}

\* The columns a sheet's loader reads an amount from; the other cell of a row
\* is never read and is left empty.
ReadsW(s) == s \in {"Labour", "rent", "Utilities", "Saving", "Expense"}
ReadsD(s) == s \in {"Sales", "Purchase of stock", "Utilities", "Saving"}

RowsOf(s) ==
    {[date |-> dt, w |-> w, d |-> d] :
        dt \in DateCells,
        w \in (IF ReadsW(s) THEN AmountCells ELSE {NaN}),
        d \in (IF ReadsD(s) THEN AmountCells ELSE {NaN})}

EmptySheet == [present |-> TRUE, missing |-> NoColumn, rows |-> <<>>]
AbsentSheet == [present |-> FALSE, missing |-> NoColumn, rows |-> <<>>]

\* The cells of a column the sheet does not have do not exist.
WithoutColumn(sh, c) ==
    [sh EXCEPT !.missing = c,
               !.rows = [i \in 1..Len(sh.rows) |->
                            [date |-> IF c = "Tran Date" THEN NotADate ELSE sh.rows[i].date,
                             w |-> IF c = "Withdrawals" THEN NaN ELSE sh.rows[i].w,
                             d |-> IF c = "Deposits" THEN NaN ELSE sh.rows[i].d]]]

\* The sheets of name s with at most n rows and every column.
SheetsUpTo(s, n) ==
    {[EmptySheet EXCEPT !.rows = rows] : rows \in UNION {[1..k -> RowsOf(s)] : k \in 0..n}}

OnlySheet(s, sh) == [t \in Sheets |-> IF t = s THEN sh ELSE EmptySheet]

FullWorkbooks ==
    UNION {{OnlySheet(s, sh) : sh \in SheetsUpTo(s, MaxRows)}
           \cup {OnlySheet(s, WithoutColumn(sh, c)) : sh \in SheetsUpTo(s, MaxRows), c \in Columns}
           \cup {OnlySheet(s, AbsentSheet)} : s \in Sheets}

Intact(wb, S) == {t \in S : wb[t].present /\ wb[t].missing = NoColumn}

\* Every way of adding one row to, or taking one column from, one of the sheets S.
Grow(wb, S) ==
    UNION {{[wb EXCEPT ![s] = [@ EXCEPT !.rows = Append(@, r)]] : r \in RowsOf(s)} : s \in Intact(wb, S)}
    \cup {[wb EXCEPT ![s] = WithoutColumn(@, c)] : s \in Intact(wb, S), c \in Columns}

RECURSIVE Grown(_, _, _)
Grown(wbs, S, n) ==
    IF n = 0 THEN wbs ELSE Grown(wbs \cup UNION {Grow(wb, S) : wb \in wbs}, S, n - 1)

SparseWorkbooks ==
    UNION {Grown({[s \in Sheets |-> IF s \in P THEN EmptySheet ELSE AbsentSheet]}, P, MaxSparse) :
              P \in SUBSET Sheets}

\* The file "blancosy book of accounts 2025.xlsx": it may not exist at all.
MissingFile == [exists |-> FALSE, sheets |-> [s \in Sheets |-> AbsentSheet]]
Files == {MissingFile} \cup {[exists |-> TRUE, sheets |-> wb] : wb \in FullWorkbooks \cup SparseWorkbooks}

\* ------------------------------------------------------------- the records
Month(date) == IF date = NaT THEN <<0, 0>> ELSE <<date.y, date.m>>
Quarter(date) == IF date = NaT THEN <<0, 0>> ELSE <<date.y, (date.m - 1) \div 3 + 1>>

Record(date, amount, year, category, type) ==
    [Date |-> date, Amount |-> amount, Year |-> year, Category |-> category, Type |-> type]

\* pd.to_datetime(..., errors='coerce') and pd.to_numeric(..., errors='coerce')
to_datetime(cell) == IF cell \in {NotADate, NaT} THEN NaT ELSE cell
\* (an amount cell is numeric or empty, and to_numeric leaves both as they are)
to_numeric(cell) == cell
\* Series.fillna(0)
fillna0(cell) == IF IsNaN(cell) THEN 0 ELSE NumOf(cell)

Loaded(frames) == [ok |-> TRUE, frames |-> frames]
Failed(frames) == [ok |-> FALSE, frames |-> frames]

\* pd.read_excel raises when the file or the sheet does not exist.
Unreadable(f, s) == ~f.exists \/ ~f.sheets[s].present

\* --------------------------------------------------------------- Source A
OfficialFigures ==
    << [Category |-> "Sales", Amount |-> KES(22619122, 0), Type |-> "Income"],
       [Category |-> "Stock Purchase", Amount |-> KES(17244564, 0), Type |-> "Expense"],
       [Category |-> "Labour", Amount |-> KES(601155, 0), Type |-> "Expense"],
       [Category |-> "Rent", Amount |-> KES(192000, 0), Type |-> "Expense"],
       [Category |-> "Transport", Amount |-> KES(1028770, 0), Type |-> "Expense"],
       [Category |-> "Transaction Costs", Amount |-> KES(163557, 65), Type |-> "Expense"] >>

\* An exception inside the first try block may be raised after some of the
\* one-row frames have been appended: <<k>> raises after k appends, <<>> never
\* raises.
NoFault == <<>>
Faults == {NoFault} \cup {<<k>> : k \in {n \in 0..MaxFaultAppends : n <= Len(OfficialFigures)}}

\* Mutant of LoadOfficial2024: the expense loop writes Year 2025.
LoadOfficial2024WrongYear(fault) ==
    LET n == IF fault = NoFault THEN Len(OfficialFigures) ELSE fault[1]
    IN [ok |-> fault = NoFault,
        frames |-> [i \in 1..n |->
                       << Record(YearEnd2024, OfficialFigures[i].Amount,
                                 IF i > 2 THEN 2025 ELSE 2024,
                                 OfficialFigures[i].Category, OfficialFigures[i].Type) >>]]

\* The outcome of loading one source: the frames it appended to all_data and
\* whether it reached its "success = True".
LoadOfficial2024(fault) ==
    LET n == IF fault = NoFault THEN Len(OfficialFigures) ELSE fault[1]
    IN [ok |-> fault = NoFault,
        frames |-> [i \in 1..n |->
                       << Record(YearEnd2024, OfficialFigures[i].Amount, 2024,
                                 OfficialFigures[i].Category, OfficialFigures[i].Type) >>]]

\* ------------------------------------------------------- the 2025 sheets
\* Sales: the five columns are renamed by position (a sheet with another
\* number of columns raises); the amount is the fourth column.
LoadSales(f) ==
    LET sh == f.sheets["Sales"]
        Keep(r) == to_datetime(r.date) # NaT /\ ~IsNaN(to_numeric(r.d))
        Rec(r) == Record(to_datetime(r.date), NumOf(to_numeric(r.d)), 2025, "Sales", "Income")
        kept == SelectSeq(sh.rows, Keep)
    IN IF Unreadable(f, "Sales") \/ sh.missing # NoColumn THEN Failed(<<>>)
       ELSE Loaded(<< [i \in 1..Len(kept) |-> Rec(kept[i])] >>)

\* Labour, Purchase of stock, Expense: columns are used by name; the rows with
\* a NaT date or an empty amount are dropped.
\* Mutant of LoadNamed: the records are written as Income.
LoadNamedAsIncome(f, s, amountColumn, category) ==
    LET sh == f.sheets[s]
        Amt(r) == IF amountColumn = "Withdrawals" THEN r.w ELSE r.d
        Keep(r) == to_datetime(r.date) # NaT /\ ~IsNaN(Amt(r))
        Rec(r) == Record(to_datetime(r.date), NumOf(Amt(r)), 2025, category, "Income")
        kept == SelectSeq(sh.rows, Keep)
    IN IF Unreadable(f, s) \/ sh.missing \in {"Tran Date", amountColumn, "Transaction Narrative"}
       THEN Failed(<<>>)
       ELSE Loaded(<< [i \in 1..Len(kept) |-> Rec(kept[i])] >>)

LoadNamed(f, s, amountColumn, category) ==
    LET sh == f.sheets[s]
        Amt(r) == IF amountColumn = "Withdrawals" THEN r.w ELSE r.d
        Keep(r) == to_datetime(r.date) # NaT /\ ~IsNaN(Amt(r))
        Rec(r) == Record(to_datetime(r.date), NumOf(Amt(r)), 2025, category, "Expense")
        kept == SelectSeq(sh.rows, Keep)
    IN IF Unreadable(f, s) \/ sh.missing \in {"Tran Date", amountColumn, "Transaction Narrative"}
       THEN Failed(<<>>)
       ELSE Loaded(<< [i \in 1..Len(kept) |-> Rec(kept[i])] >>)

LoadLabour(f) == LoadNamed(f, "Labour", "Withdrawals", "Labour")
LoadStockPurchase(f) == LoadNamed(f, "Purchase of stock", "Deposits", "Stock Purchase")
LoadOtherExpenses(f) == LoadNamed(f, "Expense", "Withdrawals", "Other Expenses")

\* rent: the first row is cut off (iloc[1:]), the columns are renamed by
\* position and the amount is the third column.
LoadRent(f) ==
    LET sh == f.sheets["rent"]
        body == IF sh.rows = <<>> THEN <<>> ELSE Tail(sh.rows)
        Keep(r) == to_datetime(r.date) # NaT /\ ~IsNaN(to_numeric(r.w))
        Rec(r) == Record(to_datetime(r.date), NumOf(to_numeric(r.w)), 2025, "Rent", "Expense")
        kept == SelectSeq(body, Keep)
    IN IF Unreadable(f, "rent") \/ sh.missing # NoColumn THEN Failed(<<>>)
       ELSE Loaded(<< [i \in 1..Len(kept) |-> Rec(kept[i])] >>)

\* Utilities: Amount = Withdrawals.fillna(0) + Deposits.fillna(0); rows with a
\* NaT date are dropped, then rows whose Amount is not positive.
LoadUtilities(f) ==
    LET sh == f.sheets["Utilities"]
        Amt(r) == fillna0(r.w) + fillna0(r.d)
        Keep(r) == to_datetime(r.date) # NaT /\ Amt(r) > 0
        Rec(r) == Record(to_datetime(r.date), Amt(r), 2025, "Utilities", "Expense")
        kept == SelectSeq(sh.rows, Keep)
    IN IF Unreadable(f, "Utilities") \/ sh.missing # NoColumn THEN Failed(<<>>)
       ELSE Loaded(<< [i \in 1..Len(kept) |-> Rec(kept[i])] >>)

\* Mutant of LoadSavings: a deposit of zero counts as a deposit (>= for >).
LoadSavingsZeroDeposit(f) ==
    LET sh == f.sheets["Saving"]
        IsDeposit(r) == ~IsNaN(r.d) /\ NumOf(r.d) >= 0
        IsWithdrawal(r) == ~IsNaN(r.w) /\ NumOf(r.w) > 0
        income_df == SelectSeq(sh.rows, IsDeposit)
        expense_df == SelectSeq(sh.rows, IsWithdrawal)
        income == [i \in 1..Len(income_df) |->
                      Record(to_datetime(income_df[i].date), NumOf(income_df[i].d), 2025,
                             "Savings", "Income")]
        expense == [i \in 1..Len(expense_df) |->
                       Record(to_datetime(expense_df[i].date), NumOf(expense_df[i].w), 2025,
                              "Savings Withdrawal", "Expense")]
        appended1 == IF Len(income_df) > 0 THEN << income >> ELSE <<>>
        appended2 == IF Len(expense_df) > 0 THEN << expense >> ELSE <<>>
    IN IF Unreadable(f, "Saving") \/ sh.missing \in {"Tran Date", "Deposits"} THEN Failed(<<>>)
       ELSE IF Len(income_df) > 0 /\ sh.missing = "Transaction Narrative" THEN Failed(<<>>)
       ELSE IF sh.missing = "Withdrawals" THEN Failed(appended1)
       ELSE IF Len(expense_df) > 0 /\ sh.missing = "Transaction Narrative" THEN Failed(appended1)
       ELSE Loaded(appended1 \o appended2)

\* Saving: the deposits are appended as one frame before the Withdrawals
\* column is looked at; neither frame is appended when it has no row, and the
\* Details column is only needed by a frame that has rows.
LoadSavings(f) ==
    LET sh == f.sheets["Saving"]
        IsDeposit(r) == ~IsNaN(r.d) /\ NumOf(r.d) > 0
        IsWithdrawal(r) == ~IsNaN(r.w) /\ NumOf(r.w) > 0
        income_df == SelectSeq(sh.rows, IsDeposit)
        expense_df == SelectSeq(sh.rows, IsWithdrawal)
        income == [i \in 1..Len(income_df) |->
                      Record(to_datetime(income_df[i].date), NumOf(income_df[i].d), 2025,
                             "Savings", "Income")]
        expense == [i \in 1..Len(expense_df) |->
                       Record(to_datetime(expense_df[i].date), NumOf(expense_df[i].w), 2025,
                              "Savings Withdrawal", "Expense")]
        appended1 == IF Len(income_df) > 0 THEN << income >> ELSE <<>>
        appended2 == IF Len(expense_df) > 0 THEN << expense >> ELSE <<>>
    IN IF Unreadable(f, "Saving") \/ sh.missing \in {"Tran Date", "Deposits"} THEN Failed(<<>>)
       ELSE IF Len(income_df) > 0 /\ sh.missing = "Transaction Narrative" THEN Failed(<<>>)
       ELSE IF sh.missing = "Withdrawals" THEN Failed(appended1)
       ELSE IF Len(expense_df) > 0 /\ sh.missing = "Transaction Narrative" THEN Failed(appended1)
       ELSE Loaded(appended1 \o appended2)

LoadSheet(f, s) ==
    CASE s = "Sales" -> LoadSales(f)
      [] s = "Labour" -> LoadLabour(f)
      [] s = "rent" -> LoadRent(f)
      [] s = "Purchase of stock" -> LoadStockPurchase(f)
      [] s = "Utilities" -> LoadUtilities(f)
      [] s = "Saving" -> LoadSavings(f)
      [] s = "Expense" -> LoadOtherExpenses(f)

\* ------------------------------------------------------ load_and_clean_data
\* The locals of one call: all_data (a list of frames), success, and the log:
\* the sources attempted, in order, and the sources whose error was logged.
\* Mutant of RunSource: a failing source clears success.
RunSourceLastWins(st, s, outcome) ==
    [all_data |-> st.all_data \o outcome.frames,
     success |-> outcome.ok,
     attempted |-> Append(st.attempted, s),
     failed |-> IF outcome.ok THEN st.failed ELSE st.failed \cup {s}]

RunSource(st, s, outcome) ==
    [all_data |-> st.all_data \o outcome.frames,
     success |-> st.success \/ outcome.ok,
     attempted |-> Append(st.attempted, s),
     failed |-> IF outcome.ok THEN st.failed ELSE st.failed \cup {s}]

\* Mutant of RunSheets: the exception of a sheet escapes to the outer handler,
\* which skips the sheets after it.
RECURSIVE RunSheetsAborting(_, _, _)
RunSheetsAborting(f, i, st) ==
    IF i > Len(SheetOrder) THEN st
    ELSE LET after == RunSource(st, SheetOrder[i], LoadSheet(f, SheetOrder[i]))
         IN IF SheetOrder[i] \in after.failed THEN after ELSE RunSheetsAborting(f, i + 1, after)

\* The seven inner try blocks, one after the other: each catches its own
\* exception, so the next one always runs.
RECURSIVE RunSheets(_, _, _)
RunSheets(f, i, st) ==
    IF i > Len(SheetOrder) THEN st
    ELSE RunSheets(f, i + 1, RunSource(st, SheetOrder[i], LoadSheet(f, SheetOrder[i])))

\* pd.concat(all_data, ignore_index=True), then the Month and Quarter labels.
RECURSIVE concat(_)
concat(frames) == IF frames = <<>> THEN <<>> ELSE Head(frames) \o concat(Tail(frames))

Consolidate(frames) ==
    LET rows == concat(frames)
    IN [i \in 1..Len(rows) |->
           [Date |-> rows[i].Date, Amount |-> rows[i].Amount, Year |-> rows[i].Year,
            Category |-> rows[i].Category, Type |-> rows[i].Type,
            Month |-> Month(rows[i].Date), Quarter |-> Quarter(rows[i].Date)]]

\* The ledger is assigned when all_data is a non-empty list and success is set.
Builds(st) == Len(st.all_data) > 0 /\ st.success

load_and_clean_data(f, fault) ==
    LET start == [all_data |-> <<>>, success |-> FALSE, attempted |-> <<>>, failed |-> {}]
        afterA == RunSource(start, SourceA, LoadOfficial2024(fault))
    IN RunSheets(f, 1, afterA)

\* ------------------------------------------------------------ the queries
None == [isNone |-> TRUE, df |-> <<>>]
DataFrame(rows) == [isNone |-> FALSE, df |-> rows]

\* Arguments of filter_data.  year: None, the string 'both', or an integer;
\* categories: None or a list; transaction_type: None or a string.
NoYear == [tag |-> "None", v |-> 0]
BothYears == [tag |-> "both", v |-> 0]
YearArg(n) == [tag |-> "int", v |-> n]
NoCategories == [tag |-> "None", items |-> {}]
CategoryList(S) == [tag |-> "list", items |-> S]
NoType == [tag |-> "None", s |-> ""]
TypeArg(s) == [tag |-> "str", s |-> s]

\* Python truth of an argument: None, 0, [] and '' are false.
Truthy(arg) ==
    CASE arg.tag = "None" -> FALSE
      [] arg.tag = "int" -> arg.v # 0
      [] arg.tag = "list" -> arg.items # {}
      [] arg.tag = "str" -> arg.s # ""
      [] OTHER -> TRUE

\* Mutant of filter_data: the year criterion is not applied.
filter_data_any_year(cd, year, categories, transaction_type) ==
    IF cd.isNone THEN <<>>
    ELSE LET ByCategory(rec) == rec.Category \in categories.items
             ByType(rec) == rec.Type = transaction_type.s
             f2 == IF Truthy(categories) THEN SelectSeq(cd.df, ByCategory) ELSE cd.df
         IN IF Truthy(transaction_type) /\ transaction_type.s # "both"
            THEN SelectSeq(f2, ByType) ELSE f2

filter_data(cd, year, categories, transaction_type) ==
    IF cd.isNone THEN <<>>
    ELSE LET ByYear(rec) == rec.Year = year.v
             ByCategory(rec) == rec.Category \in categories.items
             ByType(rec) == rec.Type = transaction_type.s
             f1 == IF Truthy(year) /\ year.tag # "both" THEN SelectSeq(cd.df, ByYear) ELSE cd.df
             f2 == IF Truthy(categories) THEN SelectSeq(f1, ByCategory) ELSE f1
         IN IF Truthy(transaction_type) /\ transaction_type.s # "both"
            THEN SelectSeq(f2, ByType) ELSE f2

\* Series.sum() of the Amount column of the rows of one Type.
RECURSIVE SumAmount(_, _)
SumAmount(rows, type) ==
    IF rows = <<>> THEN 0
    ELSE (IF Head(rows).Type = type THEN Head(rows).Amount ELSE 0) + SumAmount(Tail(rows), type)

\* profit_margin is the quotient num / den times 100, kept as a fraction.
Fraction(num, den) == [num |-> num, den |-> den]
Zero == Fraction(0, 1)

\* Mutant of calculate_kpis: total_expenses sums every row, whatever its Type.
calculate_kpis_all_rows(filtered_data) ==
    IF filtered_data = <<>>
    THEN [total_income |-> 0, total_expenses |-> 0, net_profit |-> 0, profit_margin |-> Zero]
    ELSE LET total_income == SumAmount(filtered_data, "Income")
             total_expenses == SumAmount(filtered_data, "Income") + SumAmount(filtered_data, "Expense")
             net_profit == total_income - total_expenses
         IN [total_income |-> total_income,
             total_expenses |-> total_expenses,
             net_profit |-> net_profit,
             profit_margin |-> IF total_income > 0 THEN Fraction(net_profit, total_income) ELSE Zero]

\* Mutant of calculate_kpis: net_profit leaves the expenses out.
calculate_kpis_gross(filtered_data) ==
    IF filtered_data = <<>>
    THEN [total_income |-> 0, total_expenses |-> 0, net_profit |-> 0, profit_margin |-> Zero]
    ELSE LET total_income == SumAmount(filtered_data, "Income")
             total_expenses == SumAmount(filtered_data, "Expense")
             net_profit == total_income
         IN [total_income |-> total_income,
             total_expenses |-> total_expenses,
             net_profit |-> net_profit,
             profit_margin |-> IF total_income > 0 THEN Fraction(net_profit, total_income) ELSE Zero]

\* Mutant of calculate_kpis: the margin is divided out whatever total_income is.
calculate_kpis_unguarded(filtered_data) ==
    IF filtered_data = <<>>
    THEN [total_income |-> 0, total_expenses |-> 0, net_profit |-> 0, profit_margin |-> Zero]
    ELSE LET total_income == SumAmount(filtered_data, "Income")
             total_expenses == SumAmount(filtered_data, "Expense")
             net_profit == total_income - total_expenses
         IN [total_income |-> total_income,
             total_expenses |-> total_expenses,
             net_profit |-> net_profit,
             profit_margin |-> Fraction(net_profit, total_income)]

calculate_kpis(filtered_data) ==
    IF filtered_data = <<>>
    THEN [total_income |-> 0, total_expenses |-> 0, net_profit |-> 0, profit_margin |-> Zero]
    ELSE LET total_income == SumAmount(filtered_data, "Income")
             total_expenses == SumAmount(filtered_data, "Expense")
             net_profit == total_income - total_expenses
         IN [total_income |-> total_income,
             total_expenses |-> total_expenses,
             net_profit |-> net_profit,
             profit_margin |-> IF total_income > 0 THEN Fraction(net_profit, total_income) ELSE Zero]

\* sorted(...unique()): the distinct values of a column, in ascending order.
CategoryOrder ==
    <<"Labour", "Other Expenses", "Rent", "Sales", "Savings", "Savings Withdrawal",
      "Stock Purchase", "Transaction Costs", "Transport", "Utilities">>
TypeOrder == <<"Expense", "Income">>
YearOrder == <<2024, 2025>>
SortedUnique(order, values) == LET In(x) == x \in values IN SelectSeq(order, In)

Before(a, b) ==
    \/ a.y < b.y
    \/ a.y = b.y /\ a.m < b.m
    \/ a.y = b.y /\ a.m = b.m /\ a.d < b.d
\* Series.min() and Series.max() of the Date column skip NaT; NaT when nothing is left.
MinDate(dates) ==
    IF dates \ {NaT} = {} THEN NaT
    ELSE CHOOSE a \in dates \ {NaT} : \A b \in dates \ {NaT} : ~Before(b, a)
MaxDate(dates) ==
    IF dates \ {NaT} = {} THEN NaT
    ELSE CHOOSE a \in dates \ {NaT} : \A b \in dates \ {NaT} : ~Before(a, b)

Column(df, name) == {df[i][name] : i \in 1..Len(df)}

\* Mutant of get_data_summary: the entry of a year counts every record.
get_data_summary_counting_all(cd) ==
    IF cd.isNone THEN [empty |-> TRUE]
    ELSE LET years == SortedUnique(YearOrder, Column(cd.df, "Year"))
             OfYear(year) == LET Is(rec) == rec.Year = year IN SelectSeq(cd.df, Is)
         IN [empty |-> FALSE,
             total_transactions |-> Len(cd.df),
             date_range |-> [start |-> MinDate(Column(cd.df, "Date")),
                             end |-> MaxDate(Column(cd.df, "Date"))],
             categories |-> SortedUnique(CategoryOrder, Column(cd.df, "Category")),
             years |-> years,
             transaction_types |-> SortedUnique(TypeOrder, Column(cd.df, "Type")),
             year_breakdown |->
                 [year \in {years[i] : i \in 1..Len(years)} |->
                     [transactions |-> Len(cd.df),
                      total_income |-> SumAmount(OfYear(year), "Income"),
                      total_expenses |-> SumAmount(OfYear(year), "Expense")]]]

\* get_data_summary: {} when there is no ledger.
get_data_summary(cd) ==
    IF cd.isNone THEN [empty |-> TRUE]
    ELSE LET years == SortedUnique(YearOrder, Column(cd.df, "Year"))
             OfYear(year) == LET Is(rec) == rec.Year = year IN SelectSeq(cd.df, Is)
         IN [empty |-> FALSE,
             total_transactions |-> Len(cd.df),
             date_range |-> [start |-> MinDate(Column(cd.df, "Date")),
                             end |-> MaxDate(Column(cd.df, "Date"))],
             categories |-> SortedUnique(CategoryOrder, Column(cd.df, "Category")),
             years |-> years,
             transaction_types |-> SortedUnique(TypeOrder, Column(cd.df, "Type")),
             year_breakdown |->
                 [year \in {years[i] : i \in 1..Len(years)} |->
                     [transactions |-> Len(OfYear(year)),
                      total_income |-> SumAmount(OfYear(year), "Income"),
                      total_expenses |-> SumAmount(OfYear(year), "Expense")]]]

\* Mutant of get_official_2024_summary: the gross margin is cut to 23.7.
get_official_2024_summary_truncated ==
    [sales |-> KES(22619122, 0),
     cogs |-> KES(17244564, 0),
     gross_profit |-> KES(5374558, 0),
     labour |-> KES(601155, 0),
     rent |-> KES(192000, 0),
     transport |-> KES(1028770, 0),
     transaction_costs |-> KES(163557, 65),
     total_operating_expenses |-> KES(1985482, 65),
     net_profit |-> KES(3389075, 35),
     gross_profit_margin |-> 237,
     net_profit_margin |-> 150]

\* get_official_2024_summary: the margins are percentages, kept in tenths.
get_official_2024_summary ==
    [sales |-> KES(22619122, 0),
     cogs |-> KES(17244564, 0),
     gross_profit |-> KES(5374558, 0),
     labour |-> KES(601155, 0),
     rent |-> KES(192000, 0),
     transport |-> KES(1028770, 0),
     transaction_costs |-> KES(163557, 65),
     total_operating_expenses |-> KES(1985482, 65),
     net_profit |-> KES(3389075, 35),
     gross_profit_margin |-> 238,
     net_profit_margin |-> 150]

\* ---------------------------------------------------------- the dashboard
\* What a call of the generator comes to: it returns False, it returns True
\* or the HTML text, or an exception leaves it.
ReturnedFalse == "False"
ReturnedTrue == "True"
ReturnedHtml == "html"
Raised == "raised"

\* StaticDashboardGenerator.load_data, given what load_and_clean_data
\* returned and left as the ledger: len(None) is a TypeError.
load_data(success, cd) ==
    IF ~success THEN ReturnedFalse
    ELSE IF cd.isNone THEN Raised
    ELSE ReturnedTrue

\* The comparison table of the template reads the entries 2024 and 2025 of
\* year_breakdown; a key that is not there is a KeyError.  Its quotients are
\* over numpy numbers, which divide by zero into inf or nan without raising.
TableYears == {2024, 2025}

\* Mutant of generate_static_dashboard: the report is also written when the
\* load failed.
generate_static_dashboard_regardless(success, cd) ==
    IF cd.isNone THEN Raised
    ELSE IF TableYears \subseteq DOMAIN get_data_summary(cd).year_breakdown THEN ReturnedHtml
    ELSE Raised

\* StaticDashboardGenerator.generate_static_dashboard.  The four charts are
\* built from the official constants, from the entries year_breakdown has,
\* and from the 2025 rows (an empty figure when there are none).
generate_static_dashboard(success, cd) ==
    IF load_data(success, cd) = ReturnedFalse THEN ReturnedFalse
    ELSE IF load_data(success, cd) = Raised THEN Raised
    ELSE IF TableYears \subseteq DOMAIN get_data_summary(cd).year_breakdown THEN ReturnedHtml
    ELSE Raised

\* ------------------------------------------------------------------ state
VARIABLES
    file,               \* the workbook on disk (static input)
    consolidated_data,  \* self.consolidated_data: None, or the ledger
    called,             \* load_and_clean_data has returned at least once
    ret,                \* what the last call returned
    all_data,           \* the list of frames the last call collected
    attempted,          \* the sources the last call attempted, in order
    failed,             \* the sources whose failure the last call logged
    result,             \* the last query since the last load: its name,
                        \* its arguments and the value it returned
    repeated            \* the last call was not the first call on this processor

vars == <<file, consolidated_data, called, ret, all_data, attempted, failed, result, repeated>>

NoResult == [op |-> "none"]

Fresh ==
    /\ consolidated_data = None
    /\ called = FALSE
    /\ ret = FALSE
    /\ all_data = <<>>
    /\ attempted = <<>>
    /\ failed = {}
    /\ result = NoResult
    /\ repeated = FALSE

Init == file \in Files /\ Fresh

\* Mutant of Load: the frames of a call are added to the ledger of the call
\* before it.
LoadAccumulating ==
    \E fault \in Faults : \E st \in {load_and_clean_data(file, fault)} :
        /\ consolidated_data' = IF Builds(st)
                                THEN DataFrame(consolidated_data.df \o Consolidate(st.all_data))
                                ELSE consolidated_data
        /\ called' = TRUE
        /\ ret' = st.success
        /\ all_data' = st.all_data
        /\ attempted' = st.attempted
        /\ failed' = st.failed
        /\ result' = NoResult
        /\ repeated' = called
        /\ UNCHANGED file

Load ==
    \E fault \in Faults : \E st \in {load_and_clean_data(file, fault)} :
        /\ consolidated_data' = IF Builds(st) THEN DataFrame(Consolidate(st.all_data))
                                ELSE consolidated_data
        /\ called' = TRUE
        /\ ret' = st.success
        /\ all_data' = st.all_data
        /\ attempted' = st.attempted
        /\ failed' = st.failed
        /\ result' = NoResult
        /\ repeated' = called
        /\ UNCHANGED file

\* The arguments the queries are called with.
YearArgs == {NoYear, BothYears, YearArg(2024), YearArg(2025)}
CategoryArgs == {NoCategories, CategoryList({}), CategoryList({"Sales", "Savings"})}
TypeArgs == {NoType, TypeArg("both"), TypeArg("Income"), TypeArg("Expense")}

ledgerUnchanged ==
    UNCHANGED <<file, consolidated_data, called, ret, all_data, attempted, failed, repeated>>

\* Mutant of FilterData: the rows are selected in the ledger itself, not in
\* a copy of it.
FilterDataInPlace ==
    \E year \in YearArgs, categories \in CategoryArgs, transaction_type \in TypeArgs :
        /\ result' = [op |-> "filter_data", year |-> year, categories |-> categories,
                      transaction_type |-> transaction_type,
                      value |-> filter_data(consolidated_data, year, categories, transaction_type)]
        /\ consolidated_data' =
               IF consolidated_data.isNone THEN consolidated_data
               ELSE DataFrame(filter_data(consolidated_data, year, categories, transaction_type))
        /\ UNCHANGED <<file, called, ret, all_data, attempted, failed, repeated>>

FilterData ==
    \E year \in YearArgs, categories \in CategoryArgs, transaction_type \in TypeArgs :
        /\ result' = [op |-> "filter_data", year |-> year, categories |-> categories,
                      transaction_type |-> transaction_type,
                      value |-> filter_data(consolidated_data, year, categories, transaction_type)]
        /\ ledgerUnchanged

\* calculate_kpis applied to a frame that filter_data returned.
CalculateKpis ==
    \E year \in YearArgs, categories \in {NoCategories}, transaction_type \in TypeArgs :
        /\ result' = [op |-> "calculate_kpis", year |-> year, categories |-> categories,
                      transaction_type |-> transaction_type,
                      value |-> calculate_kpis(
                          filter_data(consolidated_data, year, categories, transaction_type))]
        /\ ledgerUnchanged

GetDataSummary ==
    /\ result' = [op |-> "get_data_summary", value |-> get_data_summary(consolidated_data)]
    /\ ledgerUnchanged

GetOfficial2024Summary ==
    /\ result' = [op |-> "get_official_2024_summary", value |-> get_official_2024_summary]
    /\ ledgerUnchanged

\* A run of the generator on its processor: load_and_clean_data, then the
\* charts and the template.  index_html tells whether the script wrote the file.
RunGenerator(op, script) ==
    \E fault \in Faults : \E st \in {load_and_clean_data(file, fault)} :
        \E cd \in {IF Builds(st) THEN DataFrame(Consolidate(st.all_data)) ELSE consolidated_data} :
            /\ consolidated_data' = cd
            /\ called' = TRUE
            /\ ret' = st.success
            /\ all_data' = st.all_data
            /\ attempted' = st.attempted
            /\ failed' = st.failed
            /\ repeated' = called
            /\ result' = [op |-> op,
                          load_data |-> load_data(st.success, cd),
                          value |-> generate_static_dashboard(st.success, cd),
                          index_html |-> script /\ generate_static_dashboard(st.success, cd) = ReturnedHtml]
            /\ UNCHANGED file

GenerateStaticDashboard == RunGenerator("generate_static_dashboard", FALSE)

\* The script: a new generator, one run, and index.html when the run
\* returned the HTML text.
Main == ~called /\ RunGenerator("main", TRUE)

Next == Load

Spec == Init /\ [][Next]_vars

\* The queries, over the workbooks in which one sheet holds at most
\* MaxQueryRows rows and nothing is absent, and over the missing file.  The
\* rows are dated and hold a debit (-1) or a credit (2) in each cell read.
QueryAmountCells == {Num(-1), Num(2)}
QueryRowsOf(s) ==
    {r \in RowsOf(s) :
        /\ r.date = ADate
        /\ ReadsW(s) => r.w \in QueryAmountCells
        /\ ReadsD(s) => r.d \in QueryAmountCells}
QuerySheetsUpTo(s, n) ==
    {[EmptySheet EXCEPT !.rows = rows] : rows \in UNION {[1..k -> QueryRowsOf(s)] : k \in 0..n}}
QueryFiles ==
    {MissingFile} \cup
    {[exists |-> TRUE, sheets |-> wb] :
        wb \in UNION {{OnlySheet(s, sh) : sh \in QuerySheetsUpTo(s, MaxQueryRows)} : s \in Sheets}}

InitQuery == file \in QueryFiles /\ Fresh

NextQuery == Load \/ FilterData \/ CalculateKpis \/ GetDataSummary \/ GetOfficial2024Summary

SpecQuery == InitQuery /\ [][NextQuery]_vars

\* The generator, over the workbooks of the queries and over the workbooks
\* that hold any subset of the sheets, each without rows.
HeaderOnlyWorkbooks ==
    {[s \in Sheets |-> IF s \in P THEN EmptySheet ELSE AbsentSheet] : P \in SUBSET Sheets}
DashboardFiles ==
    QueryFiles \cup {[exists |-> TRUE, sheets |-> wb] : wb \in HeaderOnlyWorkbooks}

InitDashboard == file \in DashboardFiles /\ Fresh

NextDashboard == Load \/ GenerateStaticDashboard \/ Main

SpecDashboard == InitDashboard /\ [][NextDashboard]_vars

\* ------------------------------------------------------------- properties
\* The ledger held by the processor (empty when there is none).
Ledger == consolidated_data.df
\* The last call assigned the ledger.
Built == called /\ ret /\ Len(all_data) > 0

\* The source a ledger record comes from: Source A writes Year 2024, every
\* sheet writes Year 2025 and its own categories.
SourceOf(rec) ==
    IF rec.Year = 2024 THEN SourceA
    ELSE CASE rec.Category = "Sales" -> "Sales"
           [] rec.Category = "Labour" -> "Labour"
           [] rec.Category = "Rent" -> "rent"
           [] rec.Category = "Stock Purchase" -> "Purchase of stock"
           [] rec.Category = "Utilities" -> "Utilities"
           [] rec.Category \in {"Savings", "Savings Withdrawal"} -> "Saving"
           [] OTHER -> "Expense"

AllSources == <<SourceA>> \o SheetOrder

\* C1: in one call every source (Source A, then the seven sheets in order) is
\* attempted exactly once, whichever of them failed, and the call returns.
C1_EverySourceAttemptedOnce == called => attempted = AllSources

\* C1 witness: a call in which Source A and two early sheets failed and the
\* last sheet still loaded.
C1_Witness ==
    /\ called
    /\ {SourceA, "Sales", "Utilities"} \subseteq failed
    /\ "Expense" \notin failed
    /\ attempted = AllSources

\* C2: the ledger a call builds holds no record of a sheet whose load failed
\* in that call (stated for the spreadsheet sources).
C2_FailedSourceContributesNothing ==
    Built => \A i \in 1..Len(Ledger) : SourceOf(Ledger[i]) \notin failed \cap Sheets

\* C3: the call returns True exactly when at least one source loaded without
\* failure, and False exactly when every source failed.
C3_SuccessIffSomeSourceLoaded == called => (ret <=> failed # Sources)

\* C3 witness: a call in which every source failed.
C3_Witness == called /\ failed = Sources /\ ~ret

C5_AmountNonNegative == \A i \in 1..Len(Ledger) : Ledger[i].Amount >= 0

\* C6: no ledger record comes from a row whose date is missing or does not
\* parse (such a record has the date NaT), and a sheet that exists with all
\* its columns never fails, whatever its rows hold.
C6_BadRowsDropped ==
    called =>
        /\ \A i \in 1..Len(Ledger) : Ledger[i].Date # NaT
        /\ \A s \in Sheets :
              (file.exists /\ file.sheets[s].present /\ file.sheets[s].missing = NoColumn)
                  => s \notin failed

\* The (Date, Amount) pairs of the ledger records of one category, in order.
Entry(date, amount) == [Date |-> date, Amount |-> amount]
EntriesOf(category) ==
    LET Is(rec) == rec.Category = category
        recs == SelectSeq(Ledger, Is)
    IN [i \in 1..Len(recs) |-> Entry(recs[i].Date, recs[i].Amount)]

SavingRows == file.sheets["Saving"].rows
SavingLoaded == Built /\ "Saving" \notin failed
Positive(cell) == cell # NaN /\ cell[1] > 0
Parsed(date) == IF date = NotADate THEN NaT ELSE date

\* C7: no row of the Saving sheet yields both an Income/Savings record and an
\* Expense/Savings Withdrawal record.
C7_SavingRowYieldsAtMostOne ==
    SavingLoaded =>
        \A k \in 1..Len(SavingRows) :
            ~ /\ Positive(SavingRows[k].d) /\ Positive(SavingRows[k].w)
              /\ \E i \in 1..Len(Ledger) :
                    /\ Ledger[i].Category = "Savings" /\ Ledger[i].Type = "Income"
                    /\ Ledger[i].Amount = SavingRows[k].d[1]
              /\ \E j \in 1..Len(Ledger) :
                    /\ Ledger[j].Category = "Savings Withdrawal" /\ Ledger[j].Type = "Expense"
                    /\ Ledger[j].Amount = SavingRows[k].w[1]

\* C8: when the Saving sheet loads, the Income/Savings records of the ledger
\* are, in order, one per row with a positive deposit, with that deposit as
\* Amount; the Expense/Savings Withdrawal records are one per row with a
\* positive withdrawal, with that withdrawal as Amount; a row with neither
\* leaves no record; and no other record comes from the sheet.
C8_SavingRowRecords ==
    SavingLoaded =>
        LET HasDeposit(r) == Positive(r.d)
            HasWithdrawal(r) == Positive(r.w)
            deposits == SelectSeq(SavingRows, HasDeposit)
            withdrawals == SelectSeq(SavingRows, HasWithdrawal)
        IN /\ EntriesOf("Savings") =
                  [i \in 1..Len(deposits) |-> Entry(Parsed(deposits[i].date), deposits[i].d[1])]
           /\ EntriesOf("Savings Withdrawal") =
                  [i \in 1..Len(withdrawals) |->
                      Entry(Parsed(withdrawals[i].date), withdrawals[i].w[1])]
           /\ \A i \in 1..Len(Ledger) :
                  /\ Ledger[i].Category = "Savings" => Ledger[i].Type = "Income"
                  /\ Ledger[i].Category = "Savings Withdrawal" => Ledger[i].Type = "Expense"

\* C8 witness: a loaded Saving sheet whose row has a positive deposit and no
\* withdrawal, with its one Income/Savings record in the ledger.
C8_Witness ==
    /\ SavingLoaded
    /\ \E k \in 1..Len(SavingRows) : Positive(SavingRows[k].d) /\ SavingRows[k].w = NaN
    /\ Len(EntriesOf("Savings")) = 1
    /\ Len(EntriesOf("Savings Withdrawal")) = 0

\* The six figures the claim names: category, amount, type.
C9_Figures ==
    << <<"Sales", KES(22619122, 0), "Income">>,
       <<"Stock Purchase", KES(17244564, 0), "Expense">>,
       <<"Labour", KES(601155, 0), "Expense">>,
       <<"Rent", KES(192000, 0), "Expense">>,
       <<"Transport", KES(1028770, 0), "Expense">>,
       <<"Transaction Costs", KES(163557, 65), "Expense">> >>

\* C9: when Source A loads, the records of the ledger with Year 2024 are
\* exactly six, one per official figure, each dated 2024-12-31; no sheet
\* contributes a record with Year 2024.
C9_SourceASixRecords ==
    (Built /\ SourceA \notin failed) =>
        LET Is2024(rec) == rec.Year = 2024
            recs == SelectSeq(Ledger, Is2024)
        IN /\ [i \in 1..Len(recs) |-> <<recs[i].Category, recs[i].Amount, recs[i].Type>>]
                  = C9_Figures
           /\ \A i \in 1..Len(recs) : recs[i].Date = YearEnd2024
           /\ \A i \in 1..Len(Ledger) : Ledger[i].Year # 2024 => Ledger[i].Year = 2025

\* C9 witness: Source A loaded next to a sheet that contributed a record.
C9_Witness ==
    /\ Built /\ SourceA \notin failed
    /\ \E i \in 1..Len(Ledger) : Ledger[i].Year = 2025

\* C10: with Source A loaded, calculate_kpis(filter_data(year=2024)) has the
\* net profit of get_official_2024_summary, which is 3,389,075.35 (338907535
\* cents), and the 2024 entry of get_data_summary has the official sales as
\* total income and the official cogs plus total operating expenses as total
\* expenses.
Is2024Query ==
    /\ result.op = "calculate_kpis"
    /\ result.year = YearArg(2024)
    /\ result.categories = NoCategories
    /\ result.transaction_type = NoType

RECURSIVE SumOver(_, _)
SumOver(rows, I) ==
    IF I = {} THEN 0
    ELSE LET i == CHOOSE j \in I : TRUE IN rows[i].Amount + SumOver(rows, I \ {i})
\* The sum of Amount over the rows of one Type.
AmountOf(rows, type) == SumOver(rows, {i \in 1..Len(rows) : rows[i].Type = type})

\* The frame the last calculate_kpis was applied to.
KpiInput ==
    filter_data(consolidated_data, result.year, result.categories, result.transaction_type)

\* C11: for every subset passed to calculate_kpis, total_income is the sum of
\* Amount over its Income records, total_expenses the sum over its Expense
\* records, net_profit their difference, and when total_income > 0
\* profit_margin is net_profit / total_income * 100.
C11_KpisAreTheSums ==
    result.op = "calculate_kpis" =>
        LET income == AmountOf(KpiInput, "Income")
            expenses == AmountOf(KpiInput, "Expense")
        IN /\ result.value.total_income = income
           /\ result.value.total_expenses = expenses
           /\ result.value.net_profit = income - expenses
           /\ income > 0 => result.value.profit_margin = Fraction(income - expenses, income)

\* C11 witness: KPIs of a subset that holds income and expenses.
C11_Witness ==
    /\ result.op = "calculate_kpis"
    /\ result.value.total_income > 0
    /\ result.value.total_expenses > 0
    /\ result.value.net_profit = result.value.total_income - result.value.total_expenses
    /\ result.value.profit_margin.den = result.value.total_income

\* C12: for every subset passed to calculate_kpis whose total income is 0,
\* profit_margin is exactly 0, nothing is divided by zero, and net_profit is
\* minus total_expenses.
C12_ZeroIncomeZeroMargin ==
    (result.op = "calculate_kpis" /\ AmountOf(KpiInput, "Income") = 0) =>
        /\ result.value.profit_margin = Zero
        /\ result.value.profit_margin.den # 0
        /\ result.value.net_profit = 0 - result.value.total_expenses

\* C12 witness: KPIs of a subset of expense records only.
C12_Witness ==
    /\ result.op = "calculate_kpis"
    /\ Len(KpiInput) > 0
    /\ result.value.total_income = 0
    /\ result.value.total_expenses > 0

\* A ledger has been loaded: get_consolidated_data does not return None.
HasLedger == ~consolidated_data.isNone
\* What get_data_summary returns on the present ledger.
Summary == get_data_summary(consolidated_data)
\* The keys of year_breakdown.
BreakdownYears == DOMAIN Summary.year_breakdown
\* The last query was filter_data(year=2024), the other criteria omitted.
Is2024Filter ==
    /\ result.op = "filter_data"
    /\ result.year = YearArg(2024)
    /\ result.categories = NoCategories
    /\ result.transaction_type = NoType
\* The records filter_data(year=2024) returned have Year 2024 and are ledger records.
Only2024FromLedger ==
    \A i \in 1..Len(result.value) :
        /\ result.value[i].Year = 2024
        /\ \E j \in 1..Len(Ledger) : Ledger[j] = result.value[i]

Supplied(arg) == arg # NoYear /\ arg # NoCategories /\ arg # NoType
                 /\ arg # BothYears /\ arg # TypeArg("both")

\* C14: filter_data returns exactly the ledger records that match every
\* supplied criterion (Year == year, Category in categories, Type ==
\* transaction_type); an omitted criterion or 'both' does not restrict, and a
\* supplied criterion always restricts, an empty categories list included.
C14_FilterMatchesSuppliedCriteria ==
    (HasLedger /\ result.op = "filter_data") =>
        LET Matches(rec) ==
                /\ Supplied(result.year) => rec.Year = result.year.v
                /\ Supplied(result.categories) => rec.Category \in result.categories.items
                /\ Supplied(result.transaction_type) => rec.Type = result.transaction_type.s
        IN result.value = SelectSeq(Ledger, Matches)

\* The positions of the ledger records of one year, and of one year and type.
InYear(year) == {i \in 1..Len(Ledger) : Ledger[i].Year = year}
InYearOfType(year, type) == {i \in InYear(year) : Ledger[i].Type = type}
\* The transaction counts of the entries D of a year breakdown, added up.
RECURSIVE SumTransactions(_, _)
SumTransactions(breakdown, D) ==
    IF D = {} THEN 0
    ELSE LET y == CHOOSE x \in D : TRUE
         IN breakdown[y].transactions + SumTransactions(breakdown, D \ {y})

\* C15: for every loaded ledger get_data_summary reports total_transactions
\* equal to the record count, the distinct years in ascending order, and for
\* each such year the count of its records, the sum of Amount of its Income
\* records and the sum of Amount of its Expense records; the per-year counts
\* add up to total_transactions.
C15_SummaryCountsAndSums ==
    (HasLedger /\ result.op = "get_data_summary") =>
        LET s == result.value
            years == {s.years[i] : i \in 1..Len(s.years)}
        IN /\ ~s.empty
           /\ s.total_transactions = Len(Ledger)
           /\ years = {Ledger[i].Year : i \in 1..Len(Ledger)}
           /\ \A i \in 1..Len(s.years) : \A j \in 1..Len(s.years) :
                  i < j => s.years[i] < s.years[j]
           /\ DOMAIN s.year_breakdown = years
           /\ \A y \in years :
                  /\ s.year_breakdown[y].transactions = Cardinality(InYear(y))
                  /\ s.year_breakdown[y].total_income =
                         SumOver(Ledger, InYearOfType(y, "Income"))
                  /\ s.year_breakdown[y].total_expenses =
                         SumOver(Ledger, InYearOfType(y, "Expense"))
           /\ SumTransactions(s.year_breakdown, years) = s.total_transactions

\* C15 witness: the summary of a ledger with the six records of 2024 and an
\* income record of 2025.
C15_Witness ==
    /\ HasLedger /\ result.op = "get_data_summary"
    /\ result.value.years = <<2024, 2025>>
    /\ result.value.total_transactions = 7
    /\ result.value.year_breakdown[2024].transactions = 6
    /\ result.value.year_breakdown[2025].total_income > 0

\* The product a * b of naturals as <<a * b \div 10000, a * b % 10000>>, so
\* that it can exceed the machine integers.
Product(a, b) ==
    <<(a \div 10000) * b + ((a % 10000) * b) \div 10000, ((a % 10000) * b) % 10000>>
AtMost(p, q) == p[1] < q[1] \/ (p[1] = q[1] /\ p[2] <= q[2])
\* tenths / 10 is num / den * 100.
IsPercentage(tenths, num, den) == Product(num, 1000) = Product(den, tenths)
\* tenths / 10 is num / den * 100 rounded to one decimal place.
IsRoundedPercentage(tenths, num, den) ==
    /\ AtMost(Product(den, 2 * tenths - 1), Product(num, 2000))
    /\ AtMost(Product(num, 2000), Product(den, 2 * tenths + 1))
\* The sums and differences the official summary is built on.
OfficialSumsAgree(s) ==
    /\ s.gross_profit = s.sales - s.cogs
    /\ s.total_operating_expenses = s.labour + s.rent + s.transport + s.transaction_costs
    /\ s.net_profit = s.gross_profit - s.total_operating_expenses

\* C16 as stated: in get_official_2024_summary gross_profit = sales - cogs,
\* total_operating_expenses is the sum of the four expense lines, net_profit
\* = gross_profit - total_operating_expenses, and the two margins equal
\* gross_profit / sales * 100 and net_profit / sales * 100.
C16_OfficialSummaryConsistent ==
    result.op = "get_official_2024_summary" =>
        LET s == result.value
        IN /\ OfficialSumsAgree(s)
           /\ IsPercentage(s.gross_profit_margin, s.gross_profit, s.sales)
           /\ IsPercentage(s.net_profit_margin, s.net_profit, s.sales)

\* C16 amended: the sums and differences agree exactly, and the two margins
\* are gross_profit / sales * 100 and net_profit / sales * 100 rounded to one
\* decimal place.
C16_OfficialSummaryConsistentRounded ==
    result.op = "get_official_2024_summary" =>
        LET s == result.value
        IN /\ OfficialSumsAgree(s)
           /\ IsRoundedPercentage(s.gross_profit_margin, s.gross_profit, s.sales)
           /\ IsRoundedPercentage(s.net_profit_margin, s.net_profit, s.sales)

\* C16 witness: the official summary has been returned, with its margins
\* 23.8 and 15.0.
C16_Witness ==
    /\ result.op = "get_official_2024_summary"
    /\ result.value.gross_profit_margin = 238
    /\ result.value.net_profit_margin = 150
    /\ result.value.net_profit = KES(3389075, 35)

\* The total Amount of the records of one category, and of one year and type.
CategoryTotal(rows, category) ==
    SumOver(rows, {i \in 1..Len(rows) : rows[i].Category = category})
YearTypeTotal(rows, year, type) ==
    SumOver(rows, {i \in 1..Len(rows) : rows[i].Year = year /\ rows[i].Type = type})
\* Two ledgers with the same record count, totals per category and income
\* and expense sums per year.
SameTotals(a, b) ==
    /\ Len(a) = Len(b)
    /\ \A c \in Categories : CategoryTotal(a, c) = CategoryTotal(b, c)
    /\ \A y \in {2024, 2025} : \A type \in {"Income", "Expense"} :
           YearTypeTotal(a, y, type) = YearTypeTotal(b, y, type)
\* A step that is a call of load_and_clean_data after an earlier one (a call
\* clears the recorded query result), on the same workbook, in which the same
\* sources failed after the same number of frames.
SameCallAgain ==
    /\ called /\ repeated' /\ result' = NoResult
    /\ file' = file
    /\ ret' = ret /\ failed' = failed /\ Len(all_data') = Len(all_data)

\* C17: a call of load_and_clean_data that repeats an earlier call on the same
\* processor against the same inputs leaves a ledger with the same record
\* count, the same total Amount per category and the same income and expense
\* sums per year: the records of the earlier call are not accumulated.
C17_ReloadSameTotals ==
    [][SameCallAgain => SameTotals(consolidated_data'.df, consolidated_data.df)]_vars

\* C17 witness: a second call on a workbook with a Sales row has left the six
\* records of 2024 and the one of 2025, not twice as many.
C17_Witness ==
    /\ repeated /\ Built /\ SourceA \notin failed
    /\ Len(Ledger) = 7
    /\ CategoryTotal(Ledger, "Sales") = KES(22619122, 0) + 2

\* The last step was a run of the generator.
GeneratorRan == result.op \in {"generate_static_dashboard", "main"}

\* C18: whenever at least one source loaded, generate_static_dashboard runs
\* to completion and returns the report HTML; in particular it does so when
\* the official figures loaded and every sheet failed.
C18_PartialSuccessStillReports ==
    (GeneratorRan /\ failed # Sources) => result.value = ReturnedHtml

\* C19: when load_and_clean_data returns False, load_data returns False,
\* generate_static_dashboard returns False without building a chart or the
\* HTML, and the script does not write index.html.
C19_FailedLoadHaltsReport ==
    (GeneratorRan /\ ~ret) =>
        /\ result.load_data = ReturnedFalse
        /\ result.value = ReturnedFalse
        /\ ~result.index_html

\* C19 witness: the script ran on a missing workbook while the block of the
\* official figures failed, and wrote nothing.
C19_Witness ==
    /\ result.op = "main" /\ ~ret /\ failed = Sources
    /\ result.value = ReturnedFalse
    /\ ~result.index_html

\* A step that is a call of one of the four queries: it records its result
\* under the name of the query.
Query ==
    result'.op \in {"filter_data", "calculate_kpis", "get_data_summary",
                    "get_official_2024_summary"}

C21_Categories ==
    {"Sales", "Stock Purchase", "Labour", "Rent", "Transport", "Transaction Costs",
     "Utilities", "Savings", "Savings Withdrawal", "Other Expenses"}
C21_IncomeCategories == {"Sales", "Savings"}

\* C21: every record of the ledger has one of the ten categories and the
\* Type Income or Expense, and the Type follows from the Category: Sales and
\* Savings records are Income, the records of every other category Expense.
C21_TypeFollowsCategory ==
    \A i \in 1..Len(Ledger) :
        /\ Ledger[i].Category \in C21_Categories
        /\ Ledger[i].Type \in {"Income", "Expense"}
        /\ Ledger[i].Type = "Income" <=> Ledger[i].Category \in C21_IncomeCategories

\* C21 witness: a ledger with the official figures and a record of a sheet
\* whose loader writes expenses.
C21_Witness ==
    /\ Built /\ SourceA \notin failed
    /\ \E i \in 1..Len(Ledger) :
           /\ Ledger[i].Year = 2025
           /\ Ledger[i].Category \in {"Labour", "Stock Purchase", "Other Expenses"}
           /\ Ledger[i].Type = "Expense"
    /\ \E i \in 1..Len(Ledger) : Ledger[i].Category = "Sales" /\ Ledger[i].Type = "Income"

====
